---- MODULE Spec2Model ----
(***************************************************************************)
(* A model of the interdisciplinarity scoring engine (Interdisc) and of    *)
(* the parts of the MAG citation store (DBConnectMAG) it talks to.         *)
(*                                                                         *)
(* Strings are sequences of one-character strings, so that str() and       *)
(* prefix + str(id) are computed rather than assumed.  Real numbers are    *)
(* exact: a rational is a reduced pair <<n, d>>, and a value built from    *)
(* base-2 logarithms is a function from primes to rational coefficients    *)
(* (log2 of a rational is the sum of its prime exponents times log2 p).    *)
(***************************************************************************)
EXTENDS Integers, Sequences, FiniteSets

VARIABLES
    letters,        \* string.letters of the running interpreter
    venue_ids,      \* Interdisc.venue_ids
    venue_matrix,   \* Interdisc.venue_matrix
    rownorm,        \* Interdisc.rownorm
    colnorm,        \* Interdisc.colnorm
    papers,         \* the store's Papers table: venue column -> paper -> venue id
    links,          \* the store's PaperReferences table: rows <<citing, cited>>
    paper_authors,  \* the store's PaperAuthorAffiliations table: rows <<author, paper>>
    paper_title,    \* the store's Papers table: paper -> Paper_title
    pc,             \* position of the running call
    op,             \* the operation that was called
    paperids,       \* get_venue_counts: the parsed paper-ID list
    threshold,      \* get_venue_counts: query_threshold
    lower,          \* get_venue_counts: lower
    upper,          \* get_venue_counts: upper
    venue_counts,   \* get_venue_counts: the merged Counter
    queries,        \* the counting queries issued so far: <<column, subset>>
    counts,         \* what get_venue_counts returned
    divisor,        \* the total integrator/broadcast divided by
    score,          \* the score of the running get_*_score call
    ncites,         \* len(Cout) / len(Cin) of the running get_*_score call
    arg,            \* the arguments of the last call of a pure function
    out,            \* what that call computed
    second          \* the locals of a second scoring request on the same engine

vars == <<letters, venue_ids, venue_matrix, rownorm, colnorm, papers, links,
          paper_authors, paper_title, pc, op, paperids, threshold, lower, upper, venue_counts, queries,
          counts, divisor, score, ncites, arg, out, second>>

engine == <<letters, venue_ids, venue_matrix, rownorm, colnorm>>
db == <<papers, links, paper_authors, paper_title>>
pure == <<arg, out>>

(***************************************************************************)
(* Bounds of the model.                                                    *)
(***************************************************************************)
MaxLen == 5         \* longest paper-ID list handed to get_venue_counts
MaxK == 2           \* largest query_threshold handed to get_venue_counts
MaxAccesses == 4    \* most accesses of a lazy attribute on one object

\* The paper IDs and the venue numbers of the modelled store.  Venue 0 is a
\* paper without a venue in that column (the query keeps col_venue > 0).
PaperNums == {1, 2}
VenueNums == {0, 1}

\* Python's None, as the name of the operation of an idle engine
None == "None"

\* what get_venue_counts returns: None, or the vector of counts
NoCounts == [none |-> TRUE, vec |-> << >>]
SomeCounts(v) == [none |-> FALSE, vec |-> v]

\* a local that holds no number yet
NoValue == 0 - 1

\* the objects whose class has an attribute decorated with lazyproperty
InstanceNums == {1, 2}

\* a Papers table whose titles are all empty
NoTitles == [p \in PaperNums |-> << >>]

\* no pure function has been called
NoArg == [ids |-> << >>, dista |-> << >>, distb |-> << >>, cite |-> << >>,
          norm |-> << >>, mat |-> << >>, by |-> "row", authorids |-> << >>,
          return_n |-> FALSE,
          title |-> << >>, fuzzy_match_threshold |-> <<0, 1>>, sphinx_search |-> FALSE,
          new_style |-> FALSE, func |-> [i \in InstanceNums |-> NoValue],
          id_to_parse |-> [form |-> "int", int |-> 0, str |-> << >>,
                           items |-> << >>, strs |-> << >>]]

(***************************************************************************)
(* Sequences and strings.                                                  *)
(***************************************************************************)
Range(s) == {s[i] : i \in DOMAIN s}

SeqsUpTo(S, n) == UNION {[1..m -> S] : m \in 0..n}

\* s[lo:hi] of Python (0-based, half open, clipped to the list)
Slice(s, lo, hi) ==
    LET a == IF lo < Len(s) THEN lo ELSE Len(s)
        b == IF hi < Len(s) THEN hi ELSE Len(s)
    IN  IF b <= a THEN << >> ELSE [i \in 1..(b - a) |-> s[a + i]]

\* The elements of a finite set of integers, ascending.
RECURSIVE SortedSeq(_)
SortedSeq(S) ==
    IF S = {} THEN << >>
    ELSE LET m == CHOOSE x \in S : \A y \in S : x <= y
         IN  <<m>> \o SortedSeq(S \ {m})

Digit(d) == <<"0", "1", "2", "3", "4", "5", "6", "7", "8", "9">>[d + 1]

\* str(n) for an int n >= 0
RECURSIVE Str(_)
Str(n) == IF n < 10 THEN <<Digit(n)>> ELSE Str(n \div 10) \o <<Digit(n % 10)>>

Lowercase == <<"a", "b", "c", "d", "e", "f", "g", "h", "i", "j", "k", "l", "m",
               "n", "o", "p", "q", "r", "s", "t", "u", "v", "w", "x", "y", "z">>
Uppercase == <<"A", "B", "C", "D", "E", "F", "G", "H", "I", "J", "K", "L", "M",
               "N", "O", "P", "Q", "R", "S", "T", "U", "V", "W", "X", "Y", "Z">>

\* string.letters is lowercase + uppercase, and uppercase + lowercase once
\* the process has set a locale; the interpreter decides, not this code.
StringLetters == {Lowercase \o Uppercase, Uppercase \o Lowercase}

(***************************************************************************)
(* citation_db_funcs.parse_id on a list of ints: every item becomes        *)
(* str(item).  On a list or Series of strings it returns the same strings  *)
(* (str of a str is that str), which is what parse_id_strs does.           *)
(***************************************************************************)
parse_id(idlist) == [i \in DOMAIN idlist |-> Str(idlist[i])]

parse_id_strs(idlist) == [i \in DOMAIN idlist |-> idlist[i]]

(***************************************************************************)
(* Exact rationals: <<n, d>> with d > 0 and gcd(n, d) = 1.                 *)
(***************************************************************************)
Abs(n) == IF n < 0 THEN -n ELSE n

RECURSIVE GCD(_, _)
GCD(a, b) == IF b = 0 THEN a ELSE GCD(b, a % b)

\* n / d in floating point is not a number when d = 0 (0/0), and so is
\* every value computed from it
Rat(n, d) ==
    IF d = 0 THEN <<0, 0>>
    ELSE LET g == GCD(Abs(n), Abs(d))
             s == IF d < 0 THEN -1 ELSE 1
         IN  <<s * (n \div g), s * (d \div g)>>

RatZero == <<0, 1>>
RatAdd(x, y) == Rat(x[1] * y[2] + y[1] * x[2], x[2] * y[2])
RatMul(x, y) == Rat(x[1] * y[1], x[2] * y[2])
RatDiv(x, y) == Rat(x[1] * y[2], x[2] * y[1])
RatPos(x) == x[2] # 0 /\ x[1] > 0

\* sum(v) of a vector of ints
RECURSIVE Sum(_)
Sum(v) == IF v = << >> THEN 0 ELSE Head(v) + Sum(Tail(v))

(***************************************************************************)
(* NaN, and values built from base-2 logarithms.  log2 of a positive       *)
(* rational n/d is the sum over the primes p of (v_p(n) - v_p(d)) * log2 p,*)
(* and the log2 p are linearly independent over the rationals, so a value  *)
(* sum_p c_p * log2 p is the function p |-> c_p on the primes with         *)
(* c_p # 0: two values are equal exactly when these functions are.  The    *)
(* number 1 is log2 2.                                                     *)
(***************************************************************************)
RatNaN == <<0, 0>>
IsNaN(x) == x[2] = 0

LogZero == [p \in {} |-> RatZero]
LogNaN == [p \in {0} |-> RatNaN]
LogOne == [p \in {2} |-> <<1, 1>>]

IsPrime(p) == p > 1 /\ \A q \in 2..(p - 1) : p % q # 0
PrimesOf(n) == {p \in 2..n : n % p = 0 /\ IsPrime(p)}

RECURSIVE Valuation(_, _)
Valuation(n, p) == IF n % p = 0 THEN 1 + Valuation(n \div p, p) ELSE 0

\* np.log(q) / np.log(2) for a rational q > 0
Log2(q) ==
    [p \in PrimesOf(q[1]) \cup PrimesOf(q[2]) |->
        <<Valuation(q[1], p) - Valuation(q[2], p), 1>>]

Coeff(x, p) == IF p \in DOMAIN x THEN x[p] ELSE RatZero

LogAdd(x, y) ==
    IF x = LogNaN \/ y = LogNaN THEN LogNaN
    ELSE LET ps == {p \in DOMAIN x \cup DOMAIN y :
                        RatAdd(Coeff(x, p), Coeff(y, p)) # RatZero}
         IN  [p \in ps |-> RatAdd(Coeff(x, p), Coeff(y, p))]

LogScale(x, r) ==
    IF x = LogNaN \/ IsNaN(r) THEN LogNaN
    ELSE IF r = RatZero THEN LogZero
    ELSE [p \in DOMAIN x |-> RatMul(x[p], r)]

(***************************************************************************)
(* Interdisc.normalize_matrix / rowcolnorm: sklearn's normalize(mat,       *)
(* norm='l1', axis).  A matrix is a sequence of rows.  A row or column     *)
(* whose l1 norm is 0 is divided by 1 instead, so it stays all-zero.       *)
(***************************************************************************)
Dim(mat) == Len(mat)

Row(mat, j) == mat[j]
Col(mat, j) == [i \in DOMAIN mat |-> mat[i][j]]

\* L1Scale without the replacement of a zero norm by 1
L1Scale_NoGuard(v) == Sum(v)

L1Scale(v) == IF Sum(v) = 0 THEN 1 ELSE Sum(v)

normalize_matrix(mat, by) ==
    IF by = "row"
    THEN [i \in DOMAIN mat |-> [j \in DOMAIN mat[i] |->
            Rat(mat[i][j], L1Scale(Row(mat, i)))]]
    ELSE [i \in DOMAIN mat |-> [j \in DOMAIN mat[i] |->
            Rat(mat[i][j], L1Scale(Col(mat, j)))]]

rowcolnorm(mat) == <<normalize_matrix(mat, "row"), normalize_matrix(mat, "column")>>

\* no pure function has returned
NoOut == [djs |-> LogZero, aind |-> << >>, bind |-> << >>, distm |-> << >>,
          value |-> LogZero, normed |-> << >>, scores |-> << >>, raised |-> FALSE,
          idlist |-> << >>, again |-> << >>,
          candidates |-> {}, searched |-> FALSE, matches |-> {}, paperid |-> NoValue,
          dict |-> [i \in InstanceNums |-> NoValue],
          calls |-> [i \in InstanceNums |-> 0],
          accesses |-> [i \in InstanceNums |-> 0],
          got |-> [instance |-> 0, value |-> NoValue, descriptor |-> FALSE],
          answers |-> [cout |-> << >>, cin |-> << >>, venues |-> << >>]]

(***************************************************************************)
(* Interdisc.jensen_shannon_div.                                           *)
(***************************************************************************)
\* np.where(dist > 0)[0]; a comparison with NaN is false
Support(dist) == SortedSeq({i \in DOMAIN dist : RatPos(dist[i])})

\* distm without the division by 2
distm_NoHalf(dista, distb) == [i \in DOMAIN dista |-> RatAdd(dista[i], distb[i])]

\* (dista + distb) / 2
distm(dista, distb) ==
    [i \in DOMAIN dista |-> RatDiv(RatAdd(dista[i], distb[i]), <<2, 1>>)]

\* aind taken with >= 0 instead of > 0
aind_AllIndices(dista, distb) == SortedSeq(DOMAIN dista)

\* bind taken from dista: one support shared by both terms
bind_SupportOfA(dista, distb) == Support(dista)

aind(dista, distb) == Support(dista)
bind(dista, distb) == Support(distb)

\* KLTerm without the factor dist[i]
KLTerm_Unweighted(dist, m, i) ==
    IF dist[i][1] = 0 \/ m[i][1] = 0 \/ IsNaN(dist[i]) \/ IsNaN(m[i]) THEN LogNaN
    ELSE Log2(RatDiv(dist[i], m[i]))

\* np.log(dist[i] / m[i]) / log2 * dist[i]: 0/0 and log(0) * 0 are NaN
KLTerm(dist, m, i) ==
    IF dist[i][1] = 0 \/ m[i][1] = 0 \/ IsNaN(dist[i]) \/ IsNaN(m[i]) THEN LogNaN
    ELSE LogScale(Log2(RatDiv(dist[i], m[i])), dist[i])

\* sum(...) over the selected indices, left to right from 0
RECURSIVE KLSum(_, _, _, _)
KLSum(acc, dist, m, ind) ==
    IF ind = << >> THEN acc
    ELSE KLSum(LogAdd(acc, KLTerm(dist, m, Head(ind))), dist, m, Tail(ind))

jensen_shannon_div(dista, distb) ==
    LET m    == distm(dista, distb)
        dkla == KLSum(LogZero, dista, m, aind(dista, distb))
        dklb == KLSum(LogZero, distb, m, bind(dista, distb))
    IN  LogScale(LogAdd(dkla, dklb), <<1, 2>>)

(***************************************************************************)
(* Interdisc.integrator and Interdisc.broadcast.                           *)
(***************************************************************************)
\* cite / float(sum(cite)): every entry is NaN when the total is 0
Normalized(cite) == [i \in DOMAIN cite |-> Rat(cite[i], Sum(cite))]

\* IntegratorTerm without the weight testa[j]
IntegratorTerm_Unweighted(testa, norm, j) == jensen_shannon_div(testa, Row(norm, j))

\* the term of venue j: the divergence from its profile, weighted by its share
IntegratorTerm(testa, norm, j) ==
    LogScale(jensen_shannon_div(testa, Row(norm, j)), testa[j])

RECURSIVE IntegratorLoop(_, _, _, _)
IntegratorLoop(intid, testa, norm, ind) ==
    IF ind = << >> THEN intid
    ELSE IntegratorLoop(LogAdd(intid, IntegratorTerm(testa, norm, Head(ind))),
                        testa, norm, Tail(ind))

integrator(outgoingcite, norm) ==
    LET testa == Normalized(outgoingcite)
    IN  IntegratorLoop(LogZero, testa, norm, Support(testa))

\* BroadcastTerm with row j of colnorm in place of column j
BroadcastTerm_Row(testb, norm, j) ==
    LogScale(jensen_shannon_div(testb, Row(norm, j)), testb[j])

BroadcastTerm(testb, norm, j) ==
    LogScale(jensen_shannon_div(testb, Col(norm, j)), testb[j])

RECURSIVE BroadcastLoop(_, _, _, _)
BroadcastLoop(brdid, testb, norm, ind) ==
    IF ind = << >> THEN brdid
    ELSE BroadcastLoop(LogAdd(brdid, BroadcastTerm(testb, norm, Head(ind))),
                       testb, norm, Tail(ind))

broadcast(incomingcite, norm) ==
    LET testb == Normalized(incomingcite)
    IN  BroadcastLoop(LogZero, testb, norm, Support(testb))

(***************************************************************************)
(* The citation store (DBConnectMAG).                                      *)
(***************************************************************************)
colname_venue == <<"Journal_ID_mapped_to_venue_name",
                   "Conference_series_ID_mapped_to_venue_name">>

\* VenueCount without its WHERE Paper_ID IN (ids)
VenueCount_AnyPaper(ids, col_venue, v) ==
    Cardinality({p \in PaperNums : papers[col_venue][p] = v})

\* SELECT count(*), col_venue FROM Papers WHERE Paper_ID IN (ids)
\*   AND col_venue > 0 GROUP BY col_venue
\* The count of one venue: the stored papers of that venue whose ID is one
\* of the queried IDs.
VenueCount(ids, col_venue, v) ==
    Cardinality({p \in PaperNums : Str(p) \in ids /\ papers[col_venue][p] = v})

query_for_venue_counts(subset, col_venue) ==
    LET ids == Range(parse_id_strs(subset))
        vs  == SortedSeq({v \in VenueNums : v > 0 /\ VenueCount(ids, col_venue, v) > 0})
    IN  [i \in DOMAIN vs |-> <<VenueCount(ids, col_venue, vs[i]), vs[i]>>]

\* the rows of PaperReferences in table order
LinkKey(r) == r[1] * (Cardinality(PaperNums) + 1) + r[2]
LinkRows ==
    LET keys == SortedSeq({LinkKey(r) : r \in links})
    IN  [i \in DOMAIN keys |-> CHOOSE r \in links : LinkKey(r) = keys[i]]

RECURSIVE OtherEnds(_, _, _, _)
OtherEnds(rows, ids, near, far) ==
    IF rows = << >> THEN << >>
    ELSE (IF Str(Head(rows)[near]) \in ids THEN <<Head(rows)[far]>> ELSE << >>)
         \o OtherEnds(Tail(rows), ids, near, far)

\* SELECT citing, cited FROM PaperReferences WHERE citing IN (ids), second
\* column; for direction 'in' the two columns change places
query_for_citations(ids, direction) ==
    IF direction = "in"
    THEN OtherEnds(LinkRows, Range(parse_id(ids)), 2, 1)
    ELSE OtherEnds(LinkRows, Range(parse_id(ids)), 1, 2)

\* Series.astype(str)
astype_str(series) == [i \in DOMAIN series |-> Str(series[i])]

(***************************************************************************)
(* Interdisc._update_counter: every row (count, venue_id) is added under   *)
(* prefix + str(venue_id).                                                 *)
(***************************************************************************)
EmptyCounter == [key \in {} |-> 0]

CounterGet(c, key) == IF key \in DOMAIN c THEN c[key] ELSE 0

CounterAdd(c, key, n) ==
    [x \in DOMAIN c \cup {key} |-> IF x = key THEN CounterGet(c, key) + n ELSE c[x]]

id_with_prefix(prefix, venue_id) == <<prefix>> \o Str(venue_id)

RECURSIVE _update_counter(_, _, _)
_update_counter(vc, r, prefix) ==
    IF r = << >> THEN vc
    ELSE _update_counter(CounterAdd(vc, id_with_prefix(prefix, Head(r)[2]), Head(r)[1]),
                         Tail(r), prefix)

(***************************************************************************)
(* Interdisc.get_venue_counts.                                             *)
(***************************************************************************)
\* Prefix with the loop index left out: string.letters[0] for every column
Prefix_First(i) == letters[1]

\* the prefix of the i-th venue column (i from 1): string.letters[i - 1]
Prefix(i) == letters[i]

\* venue_prefixes: a dict, so a prefix assigned twice keeps the last column
venue_prefixes ==
    [p \in {Prefix(i) : i \in DOMAIN colname_venue} |->
        colname_venue[CHOOSE i \in DOMAIN colname_venue :
            /\ Prefix(i) = p
            /\ \A j \in DOMAIN colname_venue : Prefix(j) = p => j <= i]]

\* venue_prefixes.keys(): for one-letter keys CPython lists them in the order
\* of their letters, which is the order they were first inserted in here.
PrefixKeys ==
    LET first == {i \in DOMAIN colname_venue :
                    \A j \in DOMAIN colname_venue : j < i => Prefix(j) # Prefix(i)}
        idx == SortedSeq(first)
    IN  [n \in DOMAIN idx |-> Prefix(idx[n])]

\* the inner for-loop of one batch: one query per prefix, merged as it returns
RECURSIVE BatchCounts(_, _, _)
BatchCounts(vc, keys, subset) ==
    IF keys = << >> THEN vc
    ELSE BatchCounts(
            _update_counter(vc,
                query_for_venue_counts(subset, venue_prefixes[Head(keys)]),
                Head(keys)),
            Tail(keys), subset)

BatchQueries(keys, subset) ==
    [n \in DOMAIN keys |-> <<venue_prefixes[keys[n]], subset>>]

\* LoopExit as the exit of a loop that makes one pass
LoopExit_AfterFirstPass(lo, n) == TRUE

\* the loop's exit test, made after lower = upper
LoopExit(lo, n) == lo > n

\* Reindex without fillna and with the rows that stayed empty dropped: only
\* the venue IDs the counter holds
Reindex_NoFill(vc, ids) ==
    LET kept == SortedSeq({i \in DOMAIN ids : ids[i] \in DOMAIN vc})
    IN  [none |-> DOMAIN vc = {} \/ ids = << >>,
         vec |-> [n \in DOMAIN kept |-> vc[ids[kept[n]]]]]

\* from_dict(orient='index'), reindex(index=venue_ids), fillna(0), and the
\* test of DataFrame.empty (no column: no counter entry; no row: no venue_ids)
Reindex(vc, ids) ==
    IF DOMAIN vc = {} \/ ids = << >> THEN NoCounts
    ELSE SomeCounts([i \in DOMAIN ids |-> CounterGet(vc, ids[i])])

IDLists == SeqsUpTo(PaperNums, MaxLen)

StartVenueCounts(ids, k) ==
    /\ paperids' = ids
    /\ threshold' = k
    /\ lower' = 0
    /\ upper' = k
    /\ venue_counts' = EmptyCounter
    /\ queries' = << >>
    /\ counts' = NoCounts

\* get_venue_counts(paperids, query_threshold=k), up to the loop
CallVenueCounts ==
    /\ pc = "idle"
    /\ \E ids \in IDLists, k \in 1..MaxK :
          StartVenueCounts(parse_id(ids), k)
    /\ op' = "get_venue_counts"
    /\ pc' = "batch"
    /\ UNCHANGED <<engine, db, second, divisor, score, ncites, pure>>

\* one pass of the while-loop
Batch ==
    /\ pc = "batch"
    /\ LET subset == Slice(paperids, lower, upper)
       IN  /\ venue_counts' = BatchCounts(venue_counts, PrefixKeys, subset)
           /\ queries' = queries \o BatchQueries(PrefixKeys, subset)
    /\ lower' = upper
    /\ upper' = upper + threshold
    /\ pc' = IF LoopExit(upper, Len(paperids)) THEN "reindex" ELSE "batch"
    /\ UNCHANGED <<engine, db, second, op, paperids, threshold, counts, divisor, score, ncites, pure>>

\* the lines after the loop
ReindexCounts ==
    /\ pc = "reindex"
    /\ counts' = Reindex(venue_counts, venue_ids)
    /\ pc' = IF op = "get_venue_counts" THEN "done" ELSE "score"
    /\ UNCHANGED <<engine, db, second, op, paperids, threshold, lower, upper,
                   venue_counts, queries, divisor, score, ncites, pure>>

\* get_venue_counts as a function of its arguments: the same loop, run to
\* its end from (lo, hi) with the counter merged so far.
RECURSIVE LoopFrom(_, _, _, _, _)
LoopFrom(ids, k, lo, hi, vc) ==
    LET merged == BatchCounts(vc, PrefixKeys, Slice(ids, lo, hi))
    IN  IF LoopExit(hi, Len(ids)) THEN merged
        ELSE LoopFrom(ids, k, hi, hi + k, merged)

get_venue_counts(ids, k) == Reindex(LoopFrom(ids, k, 0, k, EmptyCounter), venue_ids)

(***************************************************************************)
(* Interdisc.get_integrator_score and Interdisc.get_broadcast_score.       *)
(* The state keeps the score and the citation count; return_n only decides *)
(* whether the count is handed back with the score.                        *)
(***************************************************************************)
query_threshold == 100000

ScoreOps == {"get_integrator_score", "get_broadcast_score"}

ScoreInputs == SeqsUpTo(PaperNums, Cardinality(PaperNums))

\* Cout = query_for_citations(paperids, 'out').astype(str), then
\* get_venue_counts(Cout) up to its loop
CallIntegratorScore ==
    /\ pc = "idle"
    /\ \E ids \in ScoreInputs :
          /\ arg' = [NoArg EXCEPT !.ids = ids]
          /\ StartVenueCounts(astype_str(query_for_citations(ids, "out")), query_threshold)
    /\ op' = "get_integrator_score"
    /\ pc' = "batch"
    /\ UNCHANGED <<engine, db, second, divisor, score, ncites, out>>

CallBroadcastScore ==
    /\ pc = "idle"
    /\ \E ids \in ScoreInputs :
          /\ arg' = [NoArg EXCEPT !.ids = ids]
          /\ StartVenueCounts(astype_str(query_for_citations(ids, "in")), query_threshold)
    /\ op' = "get_broadcast_score"
    /\ pc' = "batch"
    /\ UNCHANGED <<engine, db, second, divisor, score, ncites, out>>

\* the total the score function divides by, when it is called at all
Divisor(c) == IF c.none THEN NoValue ELSE Sum(c.vec)

IntegratorScore(c) == IF c.none THEN LogZero ELSE integrator(c.vec, rownorm)
BroadcastScore(c) == IF c.none THEN LogZero ELSE broadcast(c.vec, colnorm)

\* len(Cout), len(Cin)
NumCitations(ids, cites) == Len(cites)

\* the lines after get_venue_counts has returned
Score ==
    /\ pc = "score"
    /\ divisor' = Divisor(counts)
    /\ score' = IF op = "get_integrator_score" THEN IntegratorScore(counts)
                ELSE BroadcastScore(counts)
    /\ ncites' = NumCitations(arg.ids, paperids)
    /\ pc' = "done"
    /\ UNCHANGED <<engine, db, second, op, paperids, threshold, lower, upper,
                   venue_counts, queries, counts, pure>>

(***************************************************************************)
(* Interdisc.__init__ with an in-memory venue-ID list and matrix:          *)
(* load_venue_ids stores the list, load_venue_matrix stores the matrix and *)
(* its two normalised forms.  Neither looks at the other's size.           *)
(***************************************************************************)
Interdisc(ids, mat) ==
    [venue_ids |-> ids,
     venue_matrix |-> mat,
     rownorm |-> rowcolnorm(mat)[1],
     colnorm |-> rowcolnorm(mat)[2]]

EngineIs(e) ==
    /\ venue_ids = e.venue_ids
    /\ venue_matrix = e.venue_matrix
    /\ rownorm = e.rownorm
    /\ colnorm = e.colnorm

\* the venue-citation matrix of the worked example: rows normalise to
\* [0,1,0], [1/2,0,1/2], [0,0,1]
ExampleMatrix == <<<<0, 1, 0>>, <<1, 0, 1>>, <<0, 0, 1>>>>

\* its leading n x n block
MatrixOfDim(n) == [i \in 1..n |-> [j \in 1..n |-> ExampleMatrix[i][j]]]

\* venue IDs written with the prefixes in use: the first n of a fixed list
VenueKey(l, i, v) == <<l[i]>> \o Str(v)
VenueList(l) == <<VenueKey(l, 1, 1), VenueKey(l, 2, 1), VenueKey(l, 1, 2)>>
VenueIds(l, n) == [i \in 1..n |-> VenueList(l)[i]]

\* the engines whose matrix has one row and one column per venue ID
Engines(l) == {Interdisc(VenueIds(l, n), MatrixOfDim(n)) : n \in 1..Dim(ExampleMatrix)}

\* every engine __init__ builds from these lists and matrices
AnyEngines(l) ==
    {Interdisc(VenueIds(l, n), MatrixOfDim(m)) :
        n \in 0..Dim(ExampleMatrix), m \in 1..Dim(ExampleMatrix)}

PaperTables == [Range(colname_venue) -> [PaperNums -> VenueNums]]

\* the locals of a request that has not been made
NoRequest ==
    [pc |-> "idle", op |-> None, ids |-> << >>, paperids |-> << >>, threshold |-> 0,
     lower |-> 0, upper |-> 0, venue_counts |-> EmptyCounter, counts |-> NoCounts,
     score |-> LogZero, ncites |-> NoValue]

NoCall ==
    /\ second = NoRequest
    /\ pc = "idle"
    /\ paperids = << >>
    /\ threshold = 0
    /\ lower = 0
    /\ upper = 0
    /\ venue_counts = EmptyCounter
    /\ queries = << >>
    /\ counts = NoCounts
    /\ divisor = NoValue
    /\ score = LogZero
    /\ ncites = NoValue
    /\ out = NoOut

IdleCall == NoCall /\ op = None /\ arg = NoArg

InitCounts ==
    /\ letters \in StringLetters
    /\ \E e \in Engines(letters) : EngineIs(e)
    /\ papers \in PaperTables
    /\ links = {}
    /\ paper_authors = {}
    /\ paper_title = NoTitles
    /\ IdleCall

NextCounts == CallVenueCounts \/ Batch \/ ReindexCounts

SpecCounts == InitCounts /\ [][NextCounts]_vars

\* the two statements that end a pass of the while loop
LoopPass == pc = "batch" /\ lower' = upper /\ upper' = upper + threshold

\* get_venue_counts runs synchronously in its caller's thread: once it is
\* called, the pass the loop is at is completed (its queries block and then
\* return) and so are the statements after the loop; whether a call is made
\* is up to the caller.  Under NextCounts the steps that satisfy LoopPass are
\* exactly the Batch steps.
SpecCountsFair ==
    /\ InitCounts
    /\ [][NextCounts]_vars
    /\ WF_<<lower, upper>>(LoopPass)
    /\ WF_vars(ReindexCounts)

LinkTables == SUBSET (PaperNums \X PaperNums)

InitScore ==
    /\ letters \in StringLetters
    /\ \E e \in Engines(letters) : EngineIs(e)
    /\ papers \in PaperTables
    /\ links \in LinkTables
    /\ paper_authors = {}
    /\ paper_title = NoTitles
    /\ IdleCall

NextScore == CallIntegratorScore \/ CallBroadcastScore \/ Batch \/ ReindexCounts \/ Score

SpecScore == InitScore /\ [][NextScore]_vars

(***************************************************************************)
(* parse_id on every form of ID the callers pass, and the queries that     *)
(* start with it.  An argument is a record: form says which of its fields  *)
(* holds the value (an int, a string, a list or Series of ints, a list of  *)
(* strings).                                                               *)
(***************************************************************************)
IdForms == {"int", "str", "list", "series"}

\* the four forms of the ID n
IdForm(form, n) ==
    [form  |-> form,
     int   |-> IF form = "int" THEN n ELSE 0,
     str   |-> IF form = "str" THEN Str(n) ELSE << >>,
     items |-> IF form \in {"list", "series"} THEN <<n>> ELSE << >>,
     strs  |-> << >>]

\* a list of ID strings as an argument
StrList(idlist) ==
    [form |-> "strlist", int |-> 0, str |-> << >>, items |-> << >>, strs |-> idlist]

\* parse_id without its isinstance(id_to_parse, basestring) case: list() of
\* a string is the list of its characters
parse_id_any_NoStringCase(id_to_parse) ==
    CASE id_to_parse.form = "str" ->
            [i \in DOMAIN id_to_parse.str |-> <<id_to_parse.str[i]>>]
      [] id_to_parse.form \in {"list", "series"} -> parse_id(id_to_parse.items)
      [] id_to_parse.form = "strlist" -> parse_id_strs(id_to_parse.strs)
      [] id_to_parse.form = "int" -> <<Str(id_to_parse.int)>>

\* a string is wrapped in a list; a list or Series becomes the list of
\* str(item); list() of an int raises TypeError and the int becomes
\* [str(int(id_to_parse))]
parse_id_any(id_to_parse) ==
    CASE id_to_parse.form = "str" -> <<id_to_parse.str>>
      [] id_to_parse.form \in {"list", "series"} -> parse_id(id_to_parse.items)
      [] id_to_parse.form = "strlist" -> parse_id_strs(id_to_parse.strs)
      [] id_to_parse.form = "int" -> <<Str(id_to_parse.int)>>

\* query_for_citations and query_for_venue_counts on an argument of any form
query_for_citations_any(id_to_parse, direction) ==
    IF direction = "in"
    THEN OtherEnds(LinkRows, Range(parse_id_any(id_to_parse)), 2, 1)
    ELSE OtherEnds(LinkRows, Range(parse_id_any(id_to_parse)), 1, 2)

query_for_venue_counts_any(id_to_parse, col_venue) ==
    LET ids == Range(parse_id_any(id_to_parse))
        vs  == SortedSeq({v \in VenueNums : v > 0 /\ VenueCount(ids, col_venue, v) > 0})
    IN  [i \in DOMAIN vs |-> <<VenueCount(ids, col_venue, vs[i]), vs[i]>>]

Answers(id_to_parse) ==
    [cout   |-> query_for_citations_any(id_to_parse, "out"),
     cin    |-> query_for_citations_any(id_to_parse, "in"),
     venues |-> [c \in DOMAIN colname_venue |->
                    query_for_venue_counts_any(id_to_parse, colname_venue[c])]]

MaxID == 12         \* largest ID handed to parse_id

ApplyParseId ==
    /\ pc = "idle"
    /\ op = "parse_id"
    /\ out' = [NoOut EXCEPT !.idlist = parse_id_any(arg.id_to_parse),
                            !.again = parse_id_any(StrList(parse_id_any(arg.id_to_parse))),
                            !.answers = Answers(arg.id_to_parse)]
    /\ pc' = "done"
    /\ UNCHANGED <<engine, db, second, op, paperids, threshold, lower, upper,
                   venue_counts, queries, counts, divisor, score, ncites, arg>>

InitParse ==
    /\ letters = Lowercase \o Uppercase
    /\ EngineIs(Interdisc(VenueIds(letters, Dim(ExampleMatrix)), ExampleMatrix))
    /\ papers \in PaperTables
    /\ links \in LinkTables
    /\ paper_authors = {}
    /\ paper_title = NoTitles
    /\ NoCall
    /\ op = "parse_id"
    /\ \E form \in IdForms, n \in 0..MaxID :
          arg = [NoArg EXCEPT !.id_to_parse = IdForm(form, n), !.ids = <<n>>]

NextParse == ApplyParseId

SpecParse == InitParse /\ [][NextParse]_vars

(***************************************************************************)
(* A query of the store that fails.  query_for_citations and               *)
(* query_for_venue_counts raise what the database driver raises; neither   *)
(* get_venue_counts nor get_*_score has a try statement, so the exception  *)
(* leaves the call at the statement that issued the query.                 *)
(***************************************************************************)
\* where a call is after a query in its loop failed, if the loop went on to
\* its next pass instead
AfterFailure_NextPass == "batch"

\* where a call is after a query in its loop failed: it has raised
AfterFailure == "raised"

\* query_for_citations fails
LookupFails ==
    /\ pc = "idle"
    /\ \E o \in ScoreOps, ids \in ScoreInputs :
          /\ op' = o
          /\ arg' = [NoArg EXCEPT !.ids = ids]
    /\ out' = [out EXCEPT !.raised = TRUE]
    /\ pc' = "raised"
    /\ UNCHANGED <<engine, db, second, paperids, threshold, lower, upper, venue_counts,
                   queries, counts, divisor, score, ncites>>

\* the f-th query_for_venue_counts of the running pass fails: the queries
\* before it were merged, it was issued, the rest of the pass is not run
QueryFails ==
    /\ pc = "batch"
    /\ \E f \in DOMAIN PrefixKeys :
          LET subset == Slice(paperids, lower, upper)
              before == [n \in 1..(f - 1) |-> PrefixKeys[n]]
              upto   == [n \in 1..f |-> PrefixKeys[n]]
          IN  /\ venue_counts' = BatchCounts(venue_counts, before, subset)
              /\ queries' = queries \o BatchQueries(upto, subset)
    /\ out' = [out EXCEPT !.raised = TRUE]
    /\ pc' = AfterFailure
    /\ UNCHANGED <<engine, db, second, op, paperids, threshold, lower, upper,
                   counts, divisor, score, ncites, arg>>

NextFail == NextScore \/ LookupFails \/ QueryFails

SpecFail == InitScore /\ [][NextFail]_vars

(***************************************************************************)
(* Interdisc.get_scores_from_paperids and get_scores_from_authorids, each  *)
(* call as one step.  get_integrator_score and get_broadcast_score are the *)
(* calls above as functions of their arguments and the store.              *)
(***************************************************************************)
AuthorNums == {1, 2}

\* the rows of PaperAuthorAffiliations in table order
AuthorRows ==
    LET keys == SortedSeq({LinkKey(r) : r \in paper_authors})
    IN  [i \in DOMAIN keys |-> CHOOSE r \in paper_authors : LinkKey(r) = keys[i]]

\* SELECT * FROM PaperAuthorAffiliations WHERE Author_ID IN (ids), column
\* Paper_ID; an empty Series when no row matches
get_paperids_from_authorid(authorids) ==
    OtherEnds(AuthorRows, Range(parse_id(authorids)), 1, 2)

\* score, or (score, n) when return_n
Returns(sc, n, return_n) == [score |-> sc, n |-> IF return_n THEN n ELSE NoValue]

get_integrator_score(ids, return_n) ==
    LET Cout == astype_str(query_for_citations(ids, "out"))
        counts_Cout == get_venue_counts(Cout, query_threshold)
    IN  Returns(IntegratorScore(counts_Cout), Len(Cout), return_n)

get_broadcast_score(ids, return_n) ==
    LET Cin == astype_str(query_for_citations(ids, "in"))
        counts_Cin == get_venue_counts(Cin, query_threshold)
    IN  Returns(BroadcastScore(counts_Cin), Len(Cin), return_n)

\* get_scores_from_paperids with the two scores in the other order
get_scores_from_paperids_Swapped(ids, return_n) ==
    <<get_broadcast_score(ids, return_n), get_integrator_score(ids, return_n)>>

get_scores_from_paperids(ids, return_n) ==
    <<get_integrator_score(ids, return_n), get_broadcast_score(ids, return_n)>>

get_scores_from_authorids(authorids, return_n) ==
    LET pids == get_paperids_from_authorid(authorids)
        both == get_scores_from_paperids(pids, return_n)
    IN  <<both[1], both[2]>>

AuthorInputs == SeqsUpTo(AuthorNums, Cardinality(AuthorNums))

CallScoresFromPaperids ==
    /\ pc = "idle"
    /\ \E ids \in ScoreInputs, return_n \in BOOLEAN :
          /\ arg' = [NoArg EXCEPT !.ids = ids, !.return_n = return_n]
          /\ out' = [NoOut EXCEPT !.scores = get_scores_from_paperids(ids, return_n)]
    /\ op' = "get_scores_from_paperids"
    /\ pc' = "done"
    /\ UNCHANGED <<engine, db, second, paperids, threshold, lower, upper, venue_counts,
                   queries, counts, divisor, score, ncites>>

CallScoresFromAuthorids ==
    /\ pc = "idle"
    /\ \E authorids \in AuthorInputs, return_n \in BOOLEAN :
          /\ arg' = [NoArg EXCEPT !.authorids = authorids, !.return_n = return_n]
          /\ out' = [NoOut EXCEPT !.scores = get_scores_from_authorids(authorids, return_n)]
    /\ op' = "get_scores_from_authorids"
    /\ pc' = "done"
    /\ UNCHANGED <<engine, db, second, paperids, threshold, lower, upper, venue_counts,
                   queries, counts, divisor, score, ncites>>

AuthorTables == SUBSET (AuthorNums \X PaperNums)

\* the citation tables in which no paper cites itself
CitationTables == {t \in LinkTables : \A r \in t : r[1] # r[2]}

InitFacade ==
    /\ letters = Lowercase \o Uppercase
    /\ EngineIs(Interdisc(VenueIds(letters, Dim(ExampleMatrix)), ExampleMatrix))
    /\ papers \in PaperTables
    /\ links \in CitationTables
    /\ paper_authors \in AuthorTables
    /\ paper_title = NoTitles
    /\ IdleCall

NextFacade == CallScoresFromPaperids \/ CallScoresFromAuthorids

SpecFacade == InitFacade /\ [][NextFacade]_vars

(***************************************************************************)
(* A second get_integrator_score / get_broadcast_score request on the same *)
(* engine, running between the steps of the first.  Its locals are the     *)
(* fields of the record second; the engine and the store are shared.       *)
(***************************************************************************)
\* the counter a call merges into, a local of that call, with the counter
\* of the other call for comparison: the call uses its own
LocalCounter_OfOtherCall(own, other) == other

LocalCounter(own, other) == own

Direction(o) == IF o = "get_integrator_score" THEN "out" ELSE "in"

SecondCall ==
    /\ second.pc = "idle"
    /\ \E o \in ScoreOps, ids \in ScoreInputs :
          second' = [NoRequest EXCEPT
                        !.pc = "batch",
                        !.op = o,
                        !.ids = ids,
                        !.paperids = astype_str(query_for_citations(ids, Direction(o))),
                        !.threshold = query_threshold,
                        !.upper = query_threshold]
    /\ UNCHANGED <<engine, db, pc, op, paperids, threshold, lower, upper, venue_counts,
                   queries, counts, divisor, score, ncites, pure>>

SecondBatch ==
    /\ second.pc = "batch"
    /\ LET subset == Slice(second.paperids, second.lower, second.upper)
       IN  second' = [second EXCEPT
                        !.venue_counts =
                            BatchCounts(LocalCounter(second.venue_counts, venue_counts),
                                        PrefixKeys, subset),
                        !.lower = second.upper,
                        !.upper = second.upper + second.threshold,
                        !.pc = IF LoopExit(second.upper, Len(second.paperids))
                               THEN "reindex" ELSE "batch"]
    /\ UNCHANGED <<engine, db, pc, op, paperids, threshold, lower, upper, venue_counts,
                   queries, counts, divisor, score, ncites, pure>>

SecondReindex ==
    /\ second.pc = "reindex"
    /\ second' = [second EXCEPT !.counts = Reindex(second.venue_counts, venue_ids),
                                !.pc = "score"]
    /\ UNCHANGED <<engine, db, pc, op, paperids, threshold, lower, upper, venue_counts,
                   queries, counts, divisor, score, ncites, pure>>

SecondScore ==
    /\ second.pc = "score"
    /\ second' = [second EXCEPT
                     !.score = IF second.op = "get_integrator_score"
                               THEN IntegratorScore(second.counts)
                               ELSE BroadcastScore(second.counts),
                     !.ncites = NumCitations(second.ids, second.paperids),
                     !.pc = "done"]
    /\ UNCHANGED <<engine, db, pc, op, paperids, threshold, lower, upper, venue_counts,
                   queries, counts, divisor, score, ncites, pure>>

\* the engine the constructor builds from the example's venue IDs and matrix
ConstructedEngine == Interdisc(VenueIds(letters, Dim(ExampleMatrix)), ExampleMatrix)

InitTwo ==
    /\ letters = Lowercase \o Uppercase
    /\ EngineIs(ConstructedEngine)
    /\ papers \in PaperTables
    /\ links \in CitationTables
    /\ paper_authors = {}
    /\ paper_title = NoTitles
    /\ IdleCall

NextTwo ==
    \/ CallIntegratorScore \/ CallBroadcastScore \/ Batch \/ ReindexCounts \/ Score
    \/ SecondCall \/ SecondBatch \/ SecondReindex \/ SecondScore

SpecTwo == InitTwo /\ [][NextTwo]_vars

\* Interdisc(db, venue_ids, venue_matrix) on a new object
NewInterdisc ==
    /\ pc = "new"
    /\ \E e \in AnyEngines(letters) :
          /\ venue_ids' = e.venue_ids
          /\ venue_matrix' = e.venue_matrix
          /\ rownorm' = e.rownorm
          /\ colnorm' = e.colnorm
    /\ pc' = "idle"
    /\ UNCHANGED <<letters, db, second, op, paperids, threshold, lower, upper, venue_counts,
                   queries, counts, divisor, score, ncites, pure>>

InitLoad ==
    /\ letters = Lowercase \o Uppercase
    /\ venue_ids = << >>
    /\ venue_matrix = << >>
    /\ rownorm = << >>
    /\ colnorm = << >>
    /\ papers \in PaperTables
    /\ links = {}
    /\ paper_authors = {}
    /\ paper_title = NoTitles
    /\ pc = "new"
    /\ second = NoRequest
    /\ op = None
    /\ arg = NoArg
    /\ paperids = << >>
    /\ threshold = 0
    /\ lower = 0
    /\ upper = 0
    /\ venue_counts = EmptyCounter
    /\ queries = << >>
    /\ counts = NoCounts
    /\ divisor = NoValue
    /\ score = LogZero
    /\ ncites = NoValue
    /\ out = NoOut

NextLoad == NewInterdisc \/ CallVenueCounts \/ Batch \/ ReindexCounts

SpecLoad == InitLoad /\ [][NextLoad]_vars

(***************************************************************************)
(* The pure functions, applied to inputs drawn from bounded sets.          *)
(***************************************************************************)
MaxCount == 2       \* largest entry of a count vector

VecLen == Dim(ExampleMatrix)
CountVectors == [1..VecLen -> 0..MaxCount]

\* the matrices handed to integrator: the example matrix with one row
\* replaced by any count vector
Matrices ==
    {[ExampleMatrix EXCEPT ![i] = r] : i \in 1..VecLen, r \in CountVectors}

\* the vectors handed to jensen_shannon_div: count vectors as they are, and
\* divided by their total
Whole(c) == [i \in DOMAIN c |-> Rat(c[i], 1)]
Vectors == {Whole(c) : c \in CountVectors}
               \cup {Normalized(c) : c \in {x \in CountVectors : Sum(x) > 0}}

ArgsJSD == {[NoArg EXCEPT !.dista = a, !.distb = b] : a \in Vectors, b \in Vectors}
ArgsIntegrator ==
    {[NoArg EXCEPT !.cite = c, !.norm = normalize_matrix(mat, "row")] :
        c \in CountVectors, mat \in Matrices}

ArgsBroadcast ==
    {[NoArg EXCEPT !.cite = c, !.mat = mat, !.norm = normalize_matrix(mat, "column")] :
        c \in CountVectors, mat \in Matrices}

ApplyBroadcast ==
    /\ pc = "idle"
    /\ op = "broadcast"
    /\ out' = [NoOut EXCEPT !.value = broadcast(arg.cite, arg.norm)]
    /\ pc' = "done"
    /\ UNCHANGED <<engine, db, second, op, paperids, threshold, lower, upper,
                   venue_counts, queries, counts, divisor, score, ncites, arg>>

ArgsNormalize ==
    {[NoArg EXCEPT !.mat = mat, !.by = by] : mat \in Matrices, by \in {"row", "column"}}

ApplyNormalize ==
    /\ pc = "idle"
    /\ op = "normalize_matrix"
    /\ out' = [NoOut EXCEPT !.normed = normalize_matrix(arg.mat, arg.by)]
    /\ pc' = "done"
    /\ UNCHANGED <<engine, db, second, op, paperids, threshold, lower, upper, venue_counts,
                   queries, counts, divisor, score, ncites, arg>>

ApplyJSD ==
    /\ pc = "idle"
    /\ op = "jensen_shannon_div"
    /\ out' = [NoOut EXCEPT !.djs = jensen_shannon_div(arg.dista, arg.distb),
                            !.aind = aind(arg.dista, arg.distb),
                            !.bind = bind(arg.dista, arg.distb),
                            !.distm = distm(arg.dista, arg.distb)]
    /\ pc' = "done"
    /\ UNCHANGED <<engine, db, second, op, paperids, threshold, lower, upper, venue_counts,
                   queries, counts, divisor, score, ncites, arg>>

ApplyIntegrator ==
    /\ pc = "idle"
    /\ op = "integrator"
    /\ out' = [NoOut EXCEPT !.value = integrator(arg.cite, arg.norm)]
    /\ pc' = "done"
    /\ UNCHANGED <<engine, db, second, op, paperids, threshold, lower, upper, venue_counts,
                   queries, counts, divisor, score, ncites, arg>>

InitMath ==
    /\ letters = Lowercase \o Uppercase
    /\ EngineIs(Interdisc(VenueIds(letters, VecLen), ExampleMatrix))
    /\ papers = [c \in Range(colname_venue) |-> [p \in PaperNums |-> 0]]
    /\ links = {}
    /\ paper_authors = {}
    /\ paper_title = NoTitles
    /\ NoCall
    /\ \/ op = "jensen_shannon_div" /\ arg \in ArgsJSD
       \/ op = "integrator" /\ arg \in ArgsIntegrator
       \/ op = "normalize_matrix" /\ arg \in ArgsNormalize
       \/ op = "broadcast" /\ arg \in ArgsBroadcast

NextMath == ApplyJSD \/ ApplyIntegrator \/ ApplyNormalize \/ ApplyBroadcast

SpecMath == InitMath /\ [][NextMath]_vars

(***************************************************************************)
(* Claims about the pure functions, checked under SpecMath.                *)
(***************************************************************************)
PositiveAt(v) == {i \in DOMAIN v : v[i][1] > 0}

\* C8: jensen_shannon_div evaluates log(A[i]/M[i]) exactly at the indices
\* with A[i] > 0 and log(B[i]/M[i]) exactly at those with B[i] > 0; M is
\* positive at every one of them, and the result is a number (no 0/0, no
\* log of 0).
C8_OwnSupportNoZeroDivision ==
    (pc = "done" /\ op = "jensen_shannon_div") =>
        /\ Range(out.aind) = PositiveAt(arg.dista)
        /\ Range(out.bind) = PositiveAt(arg.distb)
        /\ \A i \in Range(out.aind) \cup Range(out.bind) : out.distm[i][1] > 0
        /\ out.djs # LogNaN

\* two vectors with disjoint supports, and an all-zero second vector
C8_Witness ==
    /\ pc = "done" /\ op = "jensen_shannon_div"
    /\ PositiveAt(arg.dista) # {}
    /\ \/ PositiveAt(arg.distb) = {}
       \/ PositiveAt(arg.dista) \cap PositiveAt(arg.distb) = {}
    /\ out.djs # LogZero

\* the sum over a set of venue indices of jensen_shannon(P, row j) * P[j]
RECURSIVE WeightedDivergence(_, _, _)
WeightedDivergence(P, norm, J) ==
    IF J = {} THEN LogZero
    ELSE LET j == CHOOSE x \in J : TRUE
         IN  LogAdd(LogScale(jensen_shannon_div(P, norm[j]), P[j]),
                    WeightedDivergence(P, norm, J \ {j}))

ExampleRownorm == <<<<RatZero, <<1, 1>>, RatZero>>,
                    <<<<1, 2>>, RatZero, <<1, 2>>>>,
                    <<RatZero, RatZero, <<1, 1>>>>>>

\* C9: with P = outgoing_counts / total, integrator is the sum over exactly
\* the venues j with P[j] > 0 of jensen_shannon(P, row j) * P[j]; with one
\* venue cited it is jensen_shannon(P, row j); counts [0,2,0] on the example
\* rows give jensen_shannon([0,1,0], [1/2,0,1/2]).
C9_IntegratorIsWeightedSum ==
    (pc = "done" /\ op = "integrator" /\ Sum(arg.cite) > 0) =>
        LET P == [j \in DOMAIN arg.cite |-> Rat(arg.cite[j], Sum(arg.cite))]
            J == {j \in DOMAIN arg.cite : arg.cite[j] > 0}
        IN  /\ out.value = WeightedDivergence(P, arg.norm, J)
            /\ \A j \in J : J = {j} => out.value = jensen_shannon_div(P, arg.norm[j])
            /\ (arg.cite = <<0, 2, 0>> /\ arg.norm = ExampleRownorm) =>
                  out.value = jensen_shannon_div(
                      <<RatZero, <<1, 1>>, RatZero>>, <<<<1, 2>>, RatZero, <<1, 2>>>>)

\* the worked example; the divergence of [0,1,0] from [1/2,0,1/2] is 1
C9_Witness ==
    /\ pc = "done" /\ op = "integrator"
    /\ arg.cite = <<0, 2, 0>>
    /\ arg.norm = ExampleRownorm
    /\ out.value = LogOne

\* sum of a vector of rationals
RECURSIVE RatSum(_)
RatSum(v) == IF v = << >> THEN RatZero ELSE RatAdd(Head(v), RatSum(Tail(v)))

\* a probability vector: nonnegative entries that sum to 1
IsDistribution(v) ==
    /\ \A i \in DOMAIN v : ~IsNaN(v[i]) /\ v[i][1] >= 0
    /\ RatSum(v) = <<1, 1>>

CalledJSD == pc = "done" /\ op = "jensen_shannon_div"

\* C13: jensen_shannon_div(P, P) is 0 for every probability vector P.
C13_SelfDivergenceZero ==
    (CalledJSD /\ IsDistribution(arg.dista) /\ arg.distb = arg.dista) =>
        out.djs = LogZero

\* a distribution over more than one venue, compared with itself
C13_Witness ==
    /\ CalledJSD /\ IsDistribution(arg.dista) /\ arg.distb = arg.dista
    /\ Cardinality(PositiveAt(arg.dista)) > 1
    /\ \E i, j \in DOMAIN arg.dista : RatPos(arg.dista[i]) /\ RatPos(arg.dista[j])
                                        /\ arg.dista[i] # arg.dista[j]
    /\ out.djs = LogZero

\* C14: jensen_shannon_div(P, Q) equals jensen_shannon_div(Q, P) for all
\* probability vectors P and Q of equal length.
C14_DivergenceSymmetric ==
    (CalledJSD /\ IsDistribution(arg.dista) /\ IsDistribution(arg.distb)) =>
        out.djs = jensen_shannon_div(arg.distb, arg.dista)

\* two distributions, the support of the second strictly inside the first's
C14_Witness ==
    /\ CalledJSD /\ IsDistribution(arg.dista) /\ IsDistribution(arg.distb)
    /\ PositiveAt(arg.distb) \subseteq PositiveAt(arg.dista)
    /\ PositiveAt(arg.distb) # PositiveAt(arg.dista)
    /\ out.djs # LogZero
    /\ out.djs # LogNaN
    /\ out.djs = jensen_shannon_div(arg.distb, arg.dista)

\* the rows of a matrix, or its columns
Lines(mat, by) ==
    IF by = "row" THEN mat ELSE [j \in DOMAIN mat |-> [i \in DOMAIN mat |-> mat[i][j]]]

\* C12: normalize_matrix by row makes every row with a nonzero sum sum to
\* 1, each entry the original entry divided by the row sum, and leaves an
\* all-zero row all-zero; by column the same holds for the columns.
C12_NormalizedLinesSumToOne ==
    (pc = "done" /\ op = "normalize_matrix") =>
        LET before == Lines(arg.mat, arg.by)
            after  == Lines(out.normed, arg.by)
        IN  \A i \in DOMAIN before :
                IF Sum(before[i]) # 0
                THEN /\ RatSum(after[i]) = <<1, 1>>
                     /\ \A j \in DOMAIN before[i] :
                           after[i][j] = Rat(before[i][j], Sum(before[i]))
                ELSE \A j \in DOMAIN before[i] : after[i][j] = RatZero

\* by column, a matrix with an all-zero column and a column of two entries
C12_Witness ==
    /\ pc = "done" /\ op = "normalize_matrix" /\ arg.by = "column"
    /\ \E j \in DOMAIN arg.mat : Sum(Col(arg.mat, j)) = 0
    /\ \E j \in DOMAIN arg.mat :
          /\ Sum(Col(arg.mat, j)) > 1
          /\ Cardinality({i \in DOMAIN arg.mat : arg.mat[i][j] > 0}) > 1

Transpose(mat) == [j \in DOMAIN mat |-> [i \in DOMAIN mat |-> mat[i][j]]]

\* C20: with P = incoming_counts / total, broadcast is the sum over exactly
\* the venues j with P[j] > 0 of jensen_shannon(P, column j of colnorm) *
\* P[j], and broadcast(c, colnorm of M) is integrator(c, rownorm of the
\* transpose of M) for every count vector c and matrix M.
C20_BroadcastMirrorsIntegrator ==
    (pc = "done" /\ op = "broadcast") =>
        /\ Sum(arg.cite) > 0 =>
              LET P == [j \in DOMAIN arg.cite |-> Rat(arg.cite[j], Sum(arg.cite))]
                  J == {j \in DOMAIN arg.cite : arg.cite[j] > 0}
              IN  out.value = WeightedDivergence(P, Transpose(arg.norm), J)
        /\ out.value = integrator(arg.cite, normalize_matrix(Transpose(arg.mat), "row"))

\* two venues citing, and a matrix whose rows are not its columns
C20_Witness ==
    /\ pc = "done" /\ op = "broadcast"
    /\ Cardinality({j \in DOMAIN arg.cite : arg.cite[j] > 0}) > 1
    /\ Transpose(arg.mat) # arg.mat
    /\ out.value # LogZero
    /\ out.value # integrator(arg.cite, normalize_matrix(arg.mat, "row"))

(***************************************************************************)
(* Claims about get_venue_counts, checked under SpecCounts.                *)
(***************************************************************************)
Returned == pc = "done" /\ op = "get_venue_counts"

\* the counter of one query per venue column over the whole list
Unbatched == BatchCounts(EmptyCounter, PrefixKeys, paperids)

\* C1: when get_venue_counts has returned, the counter merged over all
\* batches equals the counter of a single unbatched query over the whole
\* list per venue column, for every list, also one that repeats a paper ID.
C1_BatchedEqualsUnbatched == Returned => venue_counts = Unbatched

Ceil(n, k) == (n + k - 1) \div k

\* the subsets of the queries on one venue column, in the order issued
RECURSIVE SubsetsOf(_, _)
SubsetsOf(qs, col) ==
    IF qs = << >> THEN << >>
    ELSE (IF Head(qs)[1] = col THEN <<Head(qs)[2]>> ELSE << >>) \o SubsetsOf(Tail(qs), col)

RECURSIVE Concat(_)
Concat(ss) == IF ss = << >> THEN << >> ELSE Head(ss) \o Concat(Tail(ss))

\* C2: for a list of n >= 1 paper IDs and batch size k, get_venue_counts
\* issues exactly ceil(n/k) queries per venue column, their subsets are
\* consecutive slices that together are the list, and none is empty.
C2_CeilBatchesNoEmptyQuery ==
    (Returned /\ Len(paperids) >= 1) =>
        \A c \in DOMAIN colname_venue :
            LET subs == SubsetsOf(queries, colname_venue[c])
            IN  /\ Len(subs) = Ceil(Len(paperids), threshold)
                /\ \A i \in DOMAIN subs : subs[i] # << >>
                /\ Concat(subs) = paperids

\* C5: get_venue_counts returns None for an empty list, and returns None
\* exactly when the merged counter has no entries.
C5_NoneIffCounterEmpty ==
    Returned =>
        /\ (paperids = << >> => counts = NoCounts)
        /\ (counts = NoCounts <=> DOMAIN venue_counts = {})

\* the lists with the same items as s, each as often as in s
Occurrences(s, x) == Cardinality({i \in DOMAIN s : s[i] = x})
Reorderings(s) ==
    {t \in [DOMAIN s -> Range(s)] : \A x \in Range(s) : Occurrences(t, x) = Occurrences(s, x)}

\* C7 (venue counts): the vector get_venue_counts returns for a list is the
\* one it returns, with the same batch size, for every permutation of it.
C7_CountsPermutationInvariant ==
    Returned => \A t \in Reorderings(paperids) : get_venue_counts(t, threshold) = counts

\* what the queries issued so far on column c report for venue v, in total
RECURSIVE Reported(_, _, _)
Reported(qs, col, v) ==
    IF qs = << >> THEN 0
    ELSE (IF Head(qs)[1] = col THEN VenueCount(Range(Head(qs)[2]), col, v) ELSE 0)
         + Reported(Tail(qs), col, v)

\* C10: the venue columns have pairwise different prefixes, and the counter
\* entry of prefix + venue ID holds what the queries on that prefix's column
\* reported for that venue and nothing else; the counter has no other entry.
C10_PrefixKeepsTaxonomiesApart ==
    /\ \A i, j \in DOMAIN colname_venue : i # j => Prefix(i) # Prefix(j)
    /\ \A i \in DOMAIN colname_venue : \A v \in VenueNums \ {0} :
          CounterGet(venue_counts, id_with_prefix(Prefix(i), v))
              = Reported(queries, colname_venue[i], v)
    /\ \A key \in DOMAIN venue_counts :
          \E i \in DOMAIN colname_venue : \E v \in VenueNums \ {0} :
              /\ key = id_with_prefix(Prefix(i), v)
              /\ Reported(queries, colname_venue[i], v) > 0

\* a venue number reported by both columns, held in two counter entries
C10_Witness ==
    /\ Returned
    /\ \E v \in VenueNums \ {0} :
          /\ id_with_prefix(Prefix(1), v) \in DOMAIN venue_counts
          /\ id_with_prefix(Prefix(2), v) \in DOMAIN venue_counts
          /\ Reported(queries, colname_venue[1], v) # Reported(queries, colname_venue[2], v)

\* C11: a non-null result of get_venue_counts has one integer entry per
\* element of venue_ids, in venue_ids order: the merged count of a venue ID
\* the counter holds, and 0 for a venue ID it does not hold.
C11_VectorFollowsVenueIds ==
    (Returned /\ ~counts.none) =>
        /\ Len(counts.vec) = Len(venue_ids)
        /\ \A i \in DOMAIN venue_ids :
              /\ counts.vec[i] \in Nat
              /\ venue_ids[i] \in DOMAIN venue_counts =>
                    counts.vec[i] = venue_counts[venue_ids[i]]
              /\ venue_ids[i] \notin DOMAIN venue_counts => counts.vec[i] = 0

\* three venue IDs, one counted twice and one not in the counter
C11_Witness ==
    /\ Returned /\ ~counts.none
    /\ Len(venue_ids) = 3
    /\ \E i, j \in DOMAIN venue_ids :
          /\ counts.vec[i] = 2
          /\ venue_ids[j] \notin DOMAIN venue_counts
          /\ counts.vec[j] = 0

(***************************************************************************)
(* Claims about construction, checked under SpecLoad.                      *)
(***************************************************************************)
Constructed == pc # "new"

\* C4: no constructed engine has a venue matrix that is not N x N for
\* N = len(venue_ids): construction fails instead.
C4_MatrixMatchesVenueIds ==
    Constructed =>
        /\ Dim(venue_matrix) = Len(venue_ids)
        /\ \A i \in DOMAIN venue_matrix : Len(venue_matrix[i]) = Len(venue_ids)

(***************************************************************************)
(* Claims about the scores, checked under SpecScore.                       *)
(***************************************************************************)
Scored == pc = "done" /\ op \in ScoreOps

\* C3: integrator and broadcast never divide by a total of 0: when the
\* venue-count vector sums to 0 the score is 0 without calling them.
C3_NoDivisionByZeroTotal ==
    Scored =>
        /\ divisor # 0
        /\ (~counts.none /\ Sum(counts.vec) = 0) => divisor = NoValue

\* C6: when the citation lookup returns no citations, the score is 0 and
\* the citation count is 0, for get_integrator_score and get_broadcast_score.
C6_NoCitationsScoreZero ==
    (Scored /\ paperids = << >>) => (score = LogZero /\ ncites = 0)

\* a paper that is cited but cites nothing, asked for its integrator score
C6_Witness ==
    /\ Scored
    /\ op = "get_integrator_score"
    /\ arg.ids # << >>
    /\ links # {}
    /\ paperids = << >>
    /\ score = LogZero
    /\ ncites = 0

(***************************************************************************)
(* The scoring calls and the pure functions in one specification.          *)
(***************************************************************************)
InitScoreMath == InitScore \/ InitMath

NextScoreMath == NextScore \/ NextMath

SpecScoreMath == InitScoreMath /\ [][NextScoreMath]_vars

(***************************************************************************)
(* The order of the values built from base-2 logarithms.  LogTable holds,  *)
(* for each prime p, the floor of 100000 * log2 p; log2 p is irrational    *)
(* for p # 2, so it lies strictly between that and the next integer.       *)
(* LowerBound and UpperBound enclose 100000 times a value.                 *)
(***************************************************************************)
LogTable ==
    << <<2, 100000>>, <<3, 158496>>, <<5, 232192>>, <<7, 280735>>,
       <<11, 345943>>, <<13, 370043>>, <<17, 408746>>, <<19, 424792>>,
       <<23, 452356>>, <<29, 485798>>, <<31, 495419>>, <<37, 520945>>,
       <<41, 535755>>, <<43, 542626>>, <<47, 555458>> >>

LogFloor(p) == (CHOOSE e \in Range(LogTable) : e[1] = p)[2]
LogCeil(p) == IF p = 2 THEN LogFloor(p) ELSE LogFloor(p) + 1
LogUnit == LogFloor(2)

\* floor and ceiling of n * l / d for d > 0
FloorOf(n, l, d) == (n * l) \div d
CeilOf(n, l, d) == 0 - (((0 - n) * l) \div d)

RECURSIVE BoundSum(_, _, _)
BoundSum(x, ps, below) ==
    IF ps = {} THEN 0
    ELSE LET p == CHOOSE q \in ps : TRUE
             n == x[p][1]
             d == x[p][2]
             t == IF below
                  THEN FloorOf(n, IF n >= 0 THEN LogFloor(p) ELSE LogCeil(p), d)
                  ELSE CeilOf(n, IF n >= 0 THEN LogCeil(p) ELSE LogFloor(p), d)
         IN  t + BoundSum(x, ps \ {p}, below)

LowerBound(x) == BoundSum(x, DOMAIN x, TRUE)
UpperBound(x) == BoundSum(x, DOMAIN x, FALSE)

\* 0 <= x <= 1
InUnitInterval(x) ==
    /\ x # LogNaN
    /\ LowerBound(x) >= 0
    /\ UpperBound(x) <= LogUnit

\* C15: jensen_shannon_div(P, Q) lies in [0, 1] for all probability vectors
\* P and Q of equal length; so do integrator and broadcast of every count
\* vector with a positive total, and every score get_integrator_score and
\* get_broadcast_score (the two halves of get_scores_from_paperids) return.
C15_DivergenceAndScoresInUnitInterval ==
    /\ (CalledJSD /\ IsDistribution(arg.dista) /\ IsDistribution(arg.distb)) =>
          InUnitInterval(out.djs)
    /\ (pc = "done" /\ op \in {"integrator", "broadcast"} /\ Sum(arg.cite) > 0) =>
          InUnitInterval(out.value)
    /\ Scored => InUnitInterval(score)

\* a score strictly between 0 and 1
C15_Witness ==
    /\ Scored
    /\ ~counts.none
    /\ InUnitInterval(score)
    /\ LowerBound(score) > 0
    /\ UpperBound(score) < LogUnit

(***************************************************************************)
(* Claims about the two-score calls, checked under SpecFacade.             *)
(***************************************************************************)
\* C16: get_scores_from_authorids returns what get_scores_from_paperids
\* returns for the paper IDs get_paperids_from_authorid resolves (same
\* return_n); that is the pair (get_integrator_score, get_broadcast_score)
\* of those paper IDs, and both scores are 0 when no paper is resolved.
C16_AuthorScoresArePaperScores ==
    /\ (pc = "done" /\ op = "get_scores_from_authorids") =>
          LET pids == get_paperids_from_authorid(arg.authorids)
          IN  /\ out.scores = get_scores_from_paperids(pids, arg.return_n)
              /\ out.scores = <<get_integrator_score(pids, arg.return_n),
                                get_broadcast_score(pids, arg.return_n)>>
              /\ pids = << >> =>
                    /\ out.scores[1].score = LogZero
                    /\ out.scores[2].score = LogZero
    /\ (pc = "done" /\ op = "get_scores_from_paperids") =>
          out.scores = <<get_integrator_score(arg.ids, arg.return_n),
                         get_broadcast_score(arg.ids, arg.return_n)>>

\* two authors of several papers whose two scores differ, with the counts
C16_Witness ==
    /\ pc = "done" /\ op = "get_scores_from_authorids"
    /\ arg.return_n
    /\ Len(arg.authorids) > 1
    /\ Len(get_paperids_from_authorid(arg.authorids)) > 1
    /\ out.scores[1].score # LogZero
    /\ out.scores[2].score # out.scores[1].score
    /\ out.scores[1].n > 0

(***************************************************************************)
(* Claims about two requests on one engine, checked under SpecTwo.         *)
(***************************************************************************)
\* what a get_*_score call returns when it runs alone
ResultAlone(o, ids) ==
    IF o = "get_integrator_score" THEN get_integrator_score(ids, TRUE)
    ELSE get_broadcast_score(ids, TRUE)

FirstAgrees ==
    pc = "done" => [score |-> score, n |-> ncites] = ResultAlone(op, arg.ids)

SecondAgrees ==
    second.pc = "done" =>
        [score |-> second.score, n |-> second.ncites] = ResultAlone(second.op, second.ids)

\* C17: after every step of a scoring request venue_ids, venue_matrix,
\* rownorm and colnorm are what the constructor made them, and however the
\* steps of two requests interleave, each returns what it returns when it
\* runs alone.
C17_EngineReadOnlyRequestsIndependent ==
    /\ EngineIs(ConstructedEngine)
    /\ FirstAgrees
    /\ SecondAgrees

\* both requests between their steps at once, each with its own counts
C17_Witness ==
    /\ pc = "score"
    /\ second.pc = "score"
    /\ ~counts.none
    /\ ~second.counts.none
    /\ counts # second.counts

(***************************************************************************)
(* Claims about failing queries, checked under SpecFail.                   *)
(***************************************************************************)
\* C18: when a query of the store fails, the call has raised and holds no
\* score and no citation count; from then on no query is issued (not the
\* failed one again, no later batch or venue column) and no score is
\* returned.
C18_FailurePropagates ==
    [][/\ out'.raised => (pc' = "raised" /\ score' = LogZero /\ ncites' = NoValue)
       /\ out.raised => (queries' = queries /\ pc' = "raised")]_vars

\* the query on the second venue column failed after the first was merged
C18_Witness ==
    /\ pc = "raised"
    /\ out.raised
    /\ Len(queries) = Len(colname_venue)
    /\ venue_counts # EmptyCounter
    /\ score = LogZero
    /\ ncites = NoValue

(***************************************************************************)
(* Claims about parse_id, checked under SpecParse.                         *)
(***************************************************************************)
\* C19: for the int n, the string str(n), the list [n] and the one-element
\* Series of n, parse_id returns the list [str(n)]; parse_id of that list is
\* the same list; and the citation and venue-count queries answer each form
\* as they answer the int.
C19_ParseIdFormsAgree ==
    (pc = "done" /\ op = "parse_id") =>
        LET n == arg.ids[1]
        IN  /\ out.idlist = <<Str(n)>>
            /\ out.again = out.idlist
            /\ out.answers = Answers(IdForm("int", n))
            /\ \A form \in IdForms : parse_id_any(IdForm(form, n)) = out.idlist

\* the string form of a two-digit ID that no paper has, against a store
\* where the papers named by its digits cite
C19_Witness ==
    /\ pc = "done" /\ op = "parse_id"
    /\ arg.id_to_parse.form = "str"
    /\ Len(arg.id_to_parse.str) = 2
    /\ out.idlist = <<arg.id_to_parse.str>>
    /\ \A i \in DOMAIN arg.id_to_parse.str :
          \E r \in links : Str(r[1]) = <<arg.id_to_parse.str[i]>>
    /\ links # {}
    /\ out.answers.cout = << >>

---------------------------------------------------------------------------
\* Claims of SpecCountsFair

\* the b-th (from 0) run of k consecutive rows of s
Chunk(s, b, k) ==
    LET from == IF b * k < Len(s) THEN b * k ELSE Len(s)
        to == IF (b + 1) * k < Len(s) THEN (b + 1) * k ELSE Len(s)
    IN  [i \in 1..(to - from) |-> s[from + i]]

\* the batch (from 0) the q-th logged query belongs to
BatchOf(q) == (q - 1) \div Len(colname_venue)

\* the log holds, batch after batch, one query per taxonomy over that
\* batch's slice
QueriesInSliceOrder ==
    /\ \A q \in DOMAIN queries : queries[q][2] = Chunk(paperids, BatchOf(q), threshold)
    /\ \A q, r \in DOMAIN queries :
        (q # r /\ BatchOf(q) = BatchOf(r)) => queries[q][1] # queries[r][1]
    /\ Len(queries) % Len(colname_venue) = 0

\* the batches issued cover the whole list
AllSlicesQueried ==
    Len(queries) >= Len(colname_venue) * Ceil(Len(paperids), threshold)

\* C21: for every paper-ID list and every batch size >= 1 a started
\* get_venue_counts leaves its batching loop and returns, having queried
\* every slice of the list; at every moment the queries issued so far are,
\* batch after batch in increasing slice order, one query per taxonomy over
\* the slice of that batch
C21_LoopTerminatesQueriesInOrder ==
    /\ [](threshold >= 1 => QueriesInSliceOrder)
    /\ (pc = "batch" /\ threshold >= 1) ~> (Returned /\ AllSlicesQueried)

C21_Witness ==
    /\ Returned
    /\ Len(paperids) = MaxLen
    /\ threshold = 2
    /\ Len(queries) = 3 * Len(colname_venue)

---------------------------------------------------------------------------
(***************************************************************************)
(* DBConnectMAG.match_paper_title: titles are strings of characters.  The  *)
(* title is decoded to unicode first, which leaves these characters as     *)
(* they are.                                                               *)
(***************************************************************************)
\* the members of string.punctuation and the whitespace the titles use
Punctuation == {"!", ","}
Whitespace == {" "}

\* str.lower
LowerChar(c) ==
    IF \E i \in DOMAIN Uppercase : Uppercase[i] = c
    THEN Lowercase[CHOOSE i \in DOMAIN Uppercase : Uppercase[i] = c]
    ELSE c
str_lower(s) == [i \in DOMAIN s |-> LowerChar(s[i])]

\* str.strip
RECURSIVE str_strip(_)
str_strip(s) ==
    IF s = << >> THEN s
    ELSE IF Head(s) \in Whitespace THEN str_strip(Tail(s))
    ELSE IF s[Len(s)] \in Whitespace THEN str_strip(SubSeq(s, 1, Len(s) - 1))
    ELSE s

NotPunctuation(c) == c \notin Punctuation

\* strip, lowercase, then delete every punctuation character
normalize_title(title) == SelectSeq(str_lower(str_strip(title)), NotPunctuation)

\* title[:nchars]
FirstChars(title, nchars) ==
    SubSeq(title, 1, IF nchars < Len(title) THEN nchars ELSE Len(title))

\* col LIKE 'prefix%'
Like(stored, prefix) ==
    /\ Len(prefix) <= Len(stored)
    /\ SubSeq(stored, 1, Len(prefix)) = prefix

\* the column Normalized_paper_title holds the stored title, normalised
Normalized_paper_title(p) == normalize_title(paper_title[p])

\* the rows whose normalised title starts with the first nchars characters
query_title_with_first_characters(title, nchars) ==
    {p \in PaperNums : Like(Normalized_paper_title(p), FirstChars(title, nchars))}

nchars_first == 20
nchars_step == 10
nchars_end == 50
too_many_threshold == 10

\* the while loop of match_first_characters, from nchars on: left when the
\* result is small enough, or when nchars has reached nchars_end
RECURSIVE FirstCharactersLoop(_, _)
FirstCharactersLoop(title, nchars) ==
    LET result == query_title_with_first_characters(title, nchars)
    IN  IF Cardinality(result) <= too_many_threshold THEN result
        ELSE IF nchars + nchars_step < nchars_end
             THEN FirstCharactersLoop(title, nchars + nchars_step)
             ELSE result

\* match_first_characters(title, normalize=False): nothing when the last
\* query still returned too many rows
match_first_characters(title) ==
    LET result == FirstCharactersLoop(title, nchars_first)
    IN  IF Cardinality(result) > too_many_threshold THEN {} ELSE result

\* difflib.SequenceMatcher: the longest block the two strings share, the
\* leftmost in a and then in b, and the same to its left and to its right;
\* the number of characters matched that way
RECURSIVE MatchCount(_, _)
MatchCount(a, b) ==
    LET blocks == {m \in (DOMAIN a) \X (DOMAIN b) \X (1..Len(a)) :
                      /\ m[1] + m[3] - 1 <= Len(a)
                      /\ m[2] + m[3] - 1 <= Len(b)
                      /\ SubSeq(a, m[1], m[1] + m[3] - 1) = SubSeq(b, m[2], m[2] + m[3] - 1)}
    IN  IF blocks = {} THEN 0
        ELSE LET best == CHOOSE m \in blocks : \A n \in blocks :
                            \/ m[3] > n[3]
                            \/ m[3] = n[3] /\ m[1] < n[1]
                            \/ m[3] = n[3] /\ m[1] = n[1] /\ m[2] <= n[2]
             IN  best[3]
                 + MatchCount(SubSeq(a, 1, best[1] - 1), SubSeq(b, 1, best[2] - 1))
                 + MatchCount(SubSeq(a, best[1] + best[3], Len(a)),
                              SubSeq(b, best[2] + best[3], Len(b)))

\* SequenceMatcher.ratio(): 2.0 * matches / total length, 1.0 for two
\* empty strings; fuzzy_match compares the lowercased titles
Ratio(a, b) ==
    IF Len(a) + Len(b) = 0 THEN Rat(1, 1)
    ELSE Rat(2 * MatchCount(a, b), Len(a) + Len(b))

fuzzy_match(title, p) == Ratio(str_lower(title), str_lower(paper_title[p]))

RatGeq(x, y) == x[1] * y[2] >= y[1] * x[2]

\* result[result['ratio'] >= fuzzy_match_threshold]
AboveThreshold(title, rows, fuzzy_match_threshold) ==
    {p \in rows : RatGeq(fuzzy_match(title, p), fuzzy_match_threshold)}

\* result.sort_values('ratio').iloc[0]: a row of the lowest ratio
LowestRatio(title, rows) ==
    {p \in rows : \A q \in rows : RatGeq(fuzzy_match(title, q), fuzzy_match(title, p))}

\* the titles asked for and stored
Titles == {<<"a", "b">>, <<"a", "b", "c">>, <<"A", "b", "!">>, <<" ", "b", "a">>}
TitleTables == [PaperNums -> Titles]

\* fuzzy_match_threshold: the default .85, and a looser one
Thresholds == {<<17, 20>>, <<1, 2>>}

\* match_paper_title(title, fuzzy_match_threshold, sphinx_search), up to
\* the first query
CallMatchPaperTitle ==
    /\ pc = "idle"
    /\ \E title \in Titles, th \in Thresholds, sphinx \in BOOLEAN :
          arg' = [NoArg EXCEPT !.title = title,
                               !.fuzzy_match_threshold = th,
                               !.sphinx_search = sphinx]
    /\ op' = "match_paper_title"
    /\ pc' = "first_characters"
    /\ out' = NoOut
    /\ UNCHANGED <<engine, db, second, paperids, threshold, lower, upper,
                   venue_counts, queries, counts, divisor, score, ncites>>

\* a step of match_paper_title ends with the rows kept: None when there
\* are none, else the paper ID of a row of the lowest ratio
ReturnMatch(title, kept, o) ==
    /\ \/ kept = {} /\ out' = [o EXCEPT !.paperid = NoValue]
       \/ \E p \in LowestRatio(title, kept) : out' = [o EXCEPT !.paperid = p]
    /\ pc' = "done"

\* the first-characters step: a result that is not empty decides the call
MatchFirstCharacters ==
    /\ pc = "first_characters"
    /\ LET result == match_first_characters(normalize_title(arg.title))
           o == [out EXCEPT !.candidates = result]
       IN  IF result # {}
           THEN ReturnMatch(arg.title,
                    AboveThreshold(arg.title, result, arg.fuzzy_match_threshold), o)
           ELSE /\ out' = o
                /\ pc' = IF arg.sphinx_search THEN "sphinx" ELSE "done"
    /\ UNCHANGED <<engine, db, second, op, paperids, threshold, lower, upper,
                   venue_counts, queries, counts, divisor, score, ncites, arg>>

\* LIMIT 10 of the query on the full-text index
sphinx_limit == 10

\* the full-text step: the index is a service of its own, it answers with
\* at most sphinx_limit paper IDs, whose rows query_nodes then reads
SphinxSearch ==
    /\ pc = "sphinx"
    /\ \E found \in SUBSET PaperNums :
          /\ Cardinality(found) <= sphinx_limit
          /\ ReturnMatch(arg.title,
                AboveThreshold(arg.title, found, arg.fuzzy_match_threshold),
                [out EXCEPT !.searched = TRUE, !.matches = found])
    /\ UNCHANGED <<engine, db, second, op, paperids, threshold, lower, upper,
                   venue_counts, queries, counts, divisor, score, ncites, arg>>

InitMatch ==
    /\ letters = Lowercase \o Uppercase
    /\ EngineIs(Interdisc(VenueIds(letters, Dim(ExampleMatrix)), ExampleMatrix))
    /\ papers = [c \in Range(colname_venue) |-> [p \in PaperNums |-> 0]]
    /\ links = {}
    /\ paper_authors = {}
    /\ paper_title \in TitleTables
    /\ IdleCall

NextMatch == CallMatchPaperTitle \/ MatchFirstCharacters \/ SphinxSearch

SpecMatch == InitMatch /\ [][NextMatch]_vars

(***************************************************************************)
(* Claims about match_paper_title, checked under SpecMatch.                *)
(***************************************************************************)
MatchReturned == pc = "done" /\ op = "match_paper_title"

\* the first-characters step found no row of a ratio at or above the threshold
NoFirstCharactersMatch ==
    AboveThreshold(arg.title, match_first_characters(normalize_title(arg.title)),
                   arg.fuzzy_match_threshold) = {}

\* C22: when the first-characters step yields no candidate at or above the
\* threshold (none at all, or only candidates below it) and sphinx_search is
\* on, match_paper_title has performed the full-text search by the time it
\* returns; a paper ID it returns has a fuzzy ratio at or above the threshold
C22_FullTextSearchAfterNoMatch ==
    MatchReturned =>
        /\ (arg.sphinx_search /\ NoFirstCharactersMatch) => out.searched
        /\ out.paperid # NoValue =>
              RatGeq(fuzzy_match(arg.title, out.paperid), arg.fuzzy_match_threshold)

\* the second half of the claim on its own
ReturnedIdAboveThreshold ==
    (MatchReturned /\ out.paperid # NoValue) =>
        RatGeq(fuzzy_match(arg.title, out.paperid), arg.fuzzy_match_threshold)

\* the first half where the first-characters step found no row at all
SearchedWhenNoCandidates ==
    (MatchReturned /\ arg.sphinx_search /\ out.candidates = {}) => out.searched

---------------------------------------------------------------------------
(***************************************************************************)
(* h1_decorators.lazyproperty.  An owner class holds, under the name of    *)
(* the decorated function, the lazyproperty object; out.dict[i] is what    *)
(* the __dict__ of object i holds under that name (NoValue: nothing),      *)
(* out.calls[i] how often the function was called on i, out.got what the   *)
(* last access returned.                                                   *)
(***************************************************************************)
\* the values the decorated function computes
FuncValues == {7, 8}

\* the last access came back with a value / with the lazyproperty object
GotValue(i, v) == [instance |-> i, value |-> v, descriptor |-> FALSE]
GotDescriptor(i) == [instance |-> i, value |-> NoValue, descriptor |-> TRUE]

Accessed(o, i) == [o EXCEPT !.accesses[i] = @ + 1]

\* __get__ without its setattr
lazy_get_NoStore(o, instance, f) ==
    [o EXCEPT !.calls[instance] = @ + 1,
              !.got = GotValue(instance, f[instance])]

\* lazyproperty.__get__(self, instance, cls) for an instance: call the
\* function, store the value on the instance under the function's name,
\* return it
lazy_get(o, instance, f) ==
    [o EXCEPT !.calls[instance] = @ + 1,
              !.dict[instance] = f[instance],
              !.got = GotValue(instance, f[instance])]

\* obj.name where obj.__dict__ holds the name: the attribute lookup returns
\* what is stored (lazyproperty defines no __set__), __get__ is not run
AccessStored ==
    /\ op = "lazyproperty"
    /\ \E i \in InstanceNums :
          /\ out.accesses[i] < MaxAccesses
          /\ out.dict[i] # NoValue
          /\ out' = [Accessed(out, i) EXCEPT !.got = GotValue(i, out.dict[i])]
    /\ UNCHANGED <<engine, db, second, pc, op, paperids, threshold, lower, upper,
                   venue_counts, queries, counts, divisor, score, ncites, arg>>

\* obj.name where obj.__dict__ does not hold the name and the interpreter
\* takes the class attribute for a descriptor: __get__(obj, cls) runs
AccessGet ==
    /\ op = "lazyproperty"
    /\ arg.new_style
    /\ \E i \in InstanceNums :
          /\ out.accesses[i] < MaxAccesses
          /\ out.dict[i] = NoValue
          /\ out' = lazy_get(Accessed(out, i), i, arg.func)
    /\ UNCHANGED <<engine, db, second, pc, op, paperids, threshold, lower, upper,
                   venue_counts, queries, counts, divisor, score, ncites, arg>>

\* the same access where lazyproperty is a classic class ("class
\* lazyproperty():" has no base, and the interpreter this repository is
\* written for is Python 2): the type of a classic instance has no
\* descriptor slot, the lookup returns the class attribute as it is
AccessClassic ==
    /\ op = "lazyproperty"
    /\ ~arg.new_style
    /\ \E i \in InstanceNums :
          /\ out.accesses[i] < MaxAccesses
          /\ out.dict[i] = NoValue
          /\ out' = [Accessed(out, i) EXCEPT !.got = GotDescriptor(i)]
    /\ UNCHANGED <<engine, db, second, pc, op, paperids, threshold, lower, upper,
                   venue_counts, queries, counts, divisor, score, ncites, arg>>

\* Owner.name, on the class: __get__(None, cls) returns self, and so does a
\* lookup that runs no __get__
AccessOnClass ==
    /\ op = "lazyproperty"
    /\ out.got # GotDescriptor(0)
    /\ out' = [out EXCEPT !.got = GotDescriptor(0)]
    /\ UNCHANGED <<engine, db, second, pc, op, paperids, threshold, lower, upper,
                   venue_counts, queries, counts, divisor, score, ncites, arg>>

\* the interpreter is the one the module was loaded by; the decorated
\* function is any function of the instance
InitLazy ==
    /\ letters = Lowercase \o Uppercase
    /\ EngineIs(Interdisc(VenueIds(letters, Dim(ExampleMatrix)), ExampleMatrix))
    /\ papers = [c \in Range(colname_venue) |-> [p \in PaperNums |-> 0]]
    /\ links = {}
    /\ paper_authors = {}
    /\ paper_title = NoTitles
    /\ NoCall
    /\ op = "lazyproperty"
    /\ \E ns \in BOOLEAN, f \in [InstanceNums -> FuncValues] :
          arg = [NoArg EXCEPT !.new_style = ns, !.func = f]

NextLazy == AccessStored \/ AccessGet \/ AccessClassic \/ AccessOnClass

SpecLazy == InitLazy /\ [][NextLazy]_vars

(***************************************************************************)
(* Claims about lazyproperty, checked under SpecLazy.                      *)
(***************************************************************************)
\* C23: on every instance the decorated function is called at most once:
\* once the attribute has been accessed on an instance the function has
\* been called exactly once on it and its value is stored on that instance,
\* every access returns that instance's own value, and an instance that was
\* not accessed holds nothing
C23_ComputedOncePerInstance ==
    \A i \in InstanceNums :
        /\ out.calls[i] <= 1
        /\ out.accesses[i] >= 1 =>
              /\ out.calls[i] = 1
              /\ out.dict[i] = arg.func[i]
        /\ out.got.instance = i => out.got = GotValue(i, arg.func[i])
        /\ out.accesses[i] = 0 => out.dict[i] = NoValue

\* the claim where the interpreter runs __get__
ComputedOnceWhereGetRuns == arg.new_style => C23_ComputedOncePerInstance

====
